---- MODULE Spec2Model ----
(***************************************************************************)
(* Model of Utilities/build-script-helper.py: the staged bootstrap         *)
(* orchestrator (clean / build / test).                                    *)
(*                                                                         *)
(* A path is a sequence of components; an absolute path starts with "/".   *)
(* None and the empty string are both the empty sequence (both are falsy   *)
(* in Python).  A command-line token is a sequence of string parts (a      *)
(* literal prefix followed by the components of a path), an argument       *)
(* vector is a sequence of tokens.                                         *)
(*                                                                         *)
(* args is the argparse Namespace; attrs is the set of attribute names     *)
(* the Namespace carries.  Reading an attribute that is not in attrs       *)
(* raises AttributeError, which nothing catches.                           *)
(***************************************************************************)
EXTENDS Integers, Sequences, FiniteSets, TLC

VARIABLES
    host,    \* host facts: platform, SWIFT_EXEC, presence of ../llbuild
    argv,    \* how the run was started: entry point, verb, raw CLI flags
    args,    \* the Namespace (values of its attributes)
    attrs,   \* names of the attributes the Namespace has
    fs,      \* the disk: path -> [kind, target]
    pc,      \* position of the (single-threaded) program
    ret,     \* caller of clean_build_args: "build" or "test"
    bwc,     \* parameters of the build_with_cmake call in progress
    cmds,    \* external commands launched so far, in order
    out,     \* lines written to standard output / the diagnostic stream
    exit,    \* how the process ended: running, ok, error, traceback, usage
    run,     \* number of the invocation on this disk (1 is the first)
    twin     \* when a run is repeated for comparison: what the first pass did

vars == <<host, argv, args, attrs, fs, pc, ret, bwc, cmds, out, exit, run, twin>>

----------------------------------------------------------------------------
\* Bounds of the model.

\* longest list of --filter names
MaxFilters == 2

\* number of invocations in a row on the same disk
MaxRuns == 2

FilterNames == {"Foo", "Bar"}

----------------------------------------------------------------------------
\* Paths.

None == <<>>

Truthy(p) == p # <<>>

\* F of v, with v worked out once
With(v, F(_)) == CHOOSE r \in {F(x) : x \in {v}} : TRUE

Cwd == <<"/", "cwd">>

IsAbs(p) == p # <<>> /\ p[1] = "/"

\* os.path.normpath, component by component: "" and "." are dropped, ".."
\* takes back the component before it, is dropped at the root and is kept at
\* the front of a relative path; a relative path with nothing left is "."
RECURSIVE normpath_from(_, _, _)
normpath_from(abs, done, rest) ==
    IF rest = <<>> THEN done
    ELSE LET name == Head(rest)
         IN  IF name \in {"", "."} THEN normpath_from(abs, done, Tail(rest))
             ELSE IF name # ".." THEN normpath_from(abs, Append(done, name), Tail(rest))
             ELSE IF done # <<>> /\ done[Len(done)] # ".."
             THEN normpath_from(abs, SubSeq(done, 1, Len(done) - 1), Tail(rest))
             ELSE IF abs THEN normpath_from(abs, done, Tail(rest))
             ELSE normpath_from(abs, Append(done, ".."), Tail(rest))

\* exactly two slashes at the front are kept (POSIX), three or more are one
normpath(p) ==
    IF IsAbs(p)
    THEN LET comps == normpath_from(TRUE, <<>>, Tail(p))
         IN  IF Len(p) >= 3 /\ p[2] = "" /\ ~(Len(p) >= 4 /\ p[3] = "")
             THEN <<"/", "">> \o (IF comps = <<>> THEN <<"">> ELSE comps)
             ELSE <<"/">> \o comps
    ELSE LET comps == normpath_from(FALSE, <<>>, p)
         IN  IF comps = <<>> THEN <<".">> ELSE comps

\* os.path.abspath: normpath(join(os.getcwd(), p))
abspath(p) == normpath(IF IsAbs(p) THEN p ELSE Cwd \o p)

\* os.path.join(a, b): b alone when it is absolute or a is empty; otherwise
\* a, a slash unless a ends with one, and b (an empty b leaves "a/")
join(a, b) ==
    IF IsAbs(b) \/ a = <<>> THEN b
    ELSE IF Len(a) > 1 /\ a[Len(a)] = ""
    THEN IF b = <<>> THEN a ELSE SubSeq(a, 1, Len(a) - 1) \o b
    ELSE IF b = <<>> THEN (IF a = <<"/">> THEN a ELSE Append(a, ""))
    ELSE a \o b

\* os.path.basename: what follows the last slash
basename(p) == IF p = <<>> \/ p = <<"/">> THEN "" ELSE p[Len(p)]

\* p without the empty components at its end (the slashes p ends with)
Strip(p) ==
    IF p = <<>> THEN p
    ELSE SubSeq(p, 1, CHOOSE i \in 1..Len(p) :
                         /\ i = 1 \/ p[i] # ""
                         /\ \A j \in (i + 1)..Len(p) : p[j] = "")

\* p ends with a slash
trailing(p) == Len(p) > 1 /\ p[Len(p)] = ""

\* os.path.dirname: what precedes the last slash, without the slashes it ends
\* with unless it is made of slashes only ("/" for a name in the root)
dirname(p) ==
    IF Len(p) <= 1 THEN (IF IsAbs(p) THEN p ELSE <<>>)
    ELSE LET head == SubSeq(p, 1, Len(p) - 1)
         IN  IF IsAbs(p) /\ Len(head) >= 2 /\ (\A i \in 2..Len(head) : head[i] = "")
             THEN Append(head, "")
             ELSE Strip(head)

IsPrefix(p, q) == Len(p) <= Len(q) /\ SubSeq(q, 1, Len(p)) = p

\* g_project_root: the directory above Utilities/
g_project_root == <<"/", "src", "tsc">>

\* g_default_sysroot, defined at module load on Darwin only
g_default_sysroot == <<"/", "sdk">>

DarwinTriple == <<"x86_64-apple-macosx">>

\* what `clang --print-target-triple` prints on the modelled non-Darwin host
ClangTriple == <<"x86_64-unknown-linux-gnu">>

----------------------------------------------------------------------------
\* The disk.

Dir == [kind |-> "dir", target |-> <<>>]

File == [kind |-> "file", target |-> <<>>]

Link(t) == [kind |-> "link", target |-> t]

\* A disk maps the place of every entry (a path from the root through
\* directories only, no link on the way) to the entry.

\* symbolic links the system follows in one lookup before it gives up (ELOOP)
MaxSymlinks == 40

\* a lookup, as the system does it: from the directory at, the components of
\* rest one by one; "." stays, ".." goes to the directory above, a symbolic
\* link is replaced by its target (taken from the root when absolute, from the
\* link's directory otherwise).  The lookup fails (at is None) when a
\* component is missing, is looked for in what is not a directory, or too
\* many links were followed.
\* walk: the lookup up to the next symbolic link, which is then first in rest.
\* With create, a last component that is missing is not a failure: the lookup
\* ends at the place where it would be made.
RECURSIVE walk(_, _, _, _, _)
walk(d, at, rest, hops, create) ==
    IF rest = <<>> THEN [at |-> at, rest |-> rest, hops |-> hops]
    ELSE IF at \notin DOMAIN d \/ d[at].kind # "dir"
    THEN [at |-> None, rest |-> <<>>, hops |-> hops]
    ELSE IF Head(rest) \in {"", "."} THEN walk(d, at, Tail(rest), hops, create)
    ELSE IF Head(rest) = ".." THEN walk(d, dirname(at), Tail(rest), hops, create)
    ELSE IF Append(at, Head(rest)) \notin DOMAIN d
    THEN IF create /\ Tail(rest) = <<>>
         THEN [at |-> Append(at, Head(rest)), rest |-> <<>>, hops |-> hops]
         ELSE [at |-> None, rest |-> <<>>, hops |-> hops]
    ELSE IF d[Append(at, Head(rest))].kind = "link"
    THEN [at |-> at, rest |-> rest, hops |-> hops]
    ELSE walk(d, Append(at, Head(rest)), Tail(rest), hops, create)

\* the link a lookup stopped at is followed, and the lookup goes on; a
\* lookup that gave up for too many links ends with hops below 0
hop(d, st, create) ==
    LET t == d[Append(st.at, Head(st.rest))].target
    IN  IF st.hops = 0 THEN [at |-> None, rest |-> <<>>, hops |-> -1]
        ELSE IF t = <<>> THEN [at |-> None, rest |-> <<>>, hops |-> st.hops]
        ELSE IF IsAbs(t)
        THEN walk(d, <<"/">>, Tail(t) \o Tail(st.rest), st.hops - 1, create)
        ELSE walk(d, st.at, t \o Tail(st.rest), st.hops - 1, create)

\* the lookup st carried on to its end, through at most 2^n links
RECURSIVE lookup(_, _, _, _)
lookup(d, st, n, create) ==
    IF st.rest = <<>> THEN st
    ELSE IF n = 0 THEN hop(d, st, create)
    ELSE With(lookup(d, st, n - 1, create), LAMBDA half : lookup(d, half, n - 1, create))

\* the lookup from the directory at by the components of rest, at its end
follow(d, at, rest, hops, create) ==
    With(walk(d, at, rest, hops, create), LAMBDA st : lookup(d, st, 6, create))

\* os.stat(p): the lookup of p, every link followed (p is taken from the
\* working directory when relative; the empty path leads nowhere)
stat(d, p) ==
    IF p = <<>> THEN [at |-> None, rest |-> <<>>, hops |-> MaxSymlinks]
    ELSE With(d, LAMBDA disk :
            follow(disk, <<"/">>, Tail(IF IsAbs(p) THEN p ELSE Cwd \o p), MaxSymlinks, FALSE))

\* the place p leads to, or None
Resolve(d, p) == stat(d, p).at

\* the lookup of p fails with ELOOP
too_many_links(d, p) == stat(d, p).hops < 0

\* os.stat(p).st_mode: what kind of entry p leads to, "none" when to nothing
kind_of(d, p) ==
    With(d, LAMBDA disk :
        With(Resolve(disk, p), LAMBDA r : IF r = None THEN "none" ELSE disk[r].kind))

\* os.path.exists / os.path.isfile / os.path.isdir follow symbolic links
Exists(d, p) == kind_of(d, p) # "none"

isfile(d, p) == kind_of(d, p) = "file"

isdir(d, p) == kind_of(d, p) = "dir"

\* os.lstat(p), os.mkdir(p), os.symlink(.., p), os.remove(p): the place of the
\* entry p names, the links in its directory part followed and its last
\* component not, the slashes p ends with left aside; None when the directory
\* part leads to no directory
entry_path(d, p) ==
    IF p = <<>> THEN None
    ELSE With(Strip(IF IsAbs(p) THEN p ELSE Cwd \o p), LAMBDA q :
            IF Len(q) = 1 THEN q
            ELSE With(Resolve(d, SubSeq(q, 1, Len(q) - 1)), LAMBDA dir :
                    IF dir = None \/ d[dir].kind # "dir" THEN None
                    ELSE IF q[Len(q)] = "." THEN dir
                    ELSE IF q[Len(q)] = ".." THEN dirname(dir)
                    ELSE Append(dir, q[Len(q)])))

\* the disk d with the entry e at the place p
Put(d, p, e) == (p :> e) @@ d

\* the disk d without the entry at the place p
Without(d, p) == With(d, LAMBDA disk : [q \in (DOMAIN disk) \ {p} |-> disk[q]])

\* what an operation leaves at the place e: nothing new when e is no place
\* (ENOENT) or taken (EEXIST)
make_at(d, e, entry) ==
    IF e = None THEN [disk |-> d, err |-> "ENOENT"]
    ELSE IF e \in DOMAIN d THEN [disk |-> d, err |-> "EEXIST"]
    ELSE [disk |-> Put(d, e, entry), err |-> "ok"]

\* os.mkdir(p): the disk afterwards and the error, if any (a slash at the end
\* of p makes no difference)
mkdir(d, p) ==
    With(d, LAMBDA disk : With(entry_path(disk, p), LAMBDA e : make_at(disk, e, Dir)))

\* os.makedirs, after the directory above was seen to: its error is passed
\* on unless it is FileExistsError, then name itself is made (unless it ends
\* with ".")
made_above(sub, tail, name) ==
    IF sub.err \notin {"ok", "EEXIST"} THEN sub
    ELSE IF tail = "." THEN [disk |-> sub.disk, err |-> "ok"]
    ELSE mkdir(sub.disk, name)

\* os.makedirs(name): name is split into head and tail, once more when the
\* tail is empty; the head is made first when it does not exist, then name
RECURSIVE makedirs(_, _)
makedirs(d, name) ==
    With(d, LAMBDA disk :
        LET once == basename(name) # ""
            head == IF once THEN dirname(name) ELSE dirname(dirname(name))
            tail == IF once THEN basename(name) ELSE basename(dirname(name))
        IN  IF head # <<>> /\ tail # "" /\ ~Exists(disk, head)
            THEN With(makedirs(disk, head), LAMBDA sub : made_above(sub, tail, name))
            ELSE mkdir(disk, name))

\* mkdir_p raises: os.makedirs failed with something other than EEXIST
mkdir_p_raises(d, p) == makedirs(d, p).err \notin {"ok", "EEXIST"}

\* mkdir_p: create the directory and its parents, EEXIST is swallowed
mkdir_p(d, p) == makedirs(d, p).disk

\* where `touch p` finds or creates its file: the place p leads to, every
\* link followed, also when the last one leads to nothing yet; None when
\* there is no such place (no directory to create it in, too many links, a
\* slash after what is no directory)
touch_path(d, p) ==
    IF p = <<>> THEN None
    ELSE With(d, LAMBDA disk :
            follow(disk, <<"/">>, Tail(IF IsAbs(p) THEN p ELSE Cwd \o p), MaxSymlinks, TRUE).at)

\* `touch p` fails
write_file_fails(d, p) == With(d, LAMBDA disk : touch_path(disk, p) = None)

\* `touch p`, and files written by the commands: a file is created where p
\* leads when nothing is there; what is there stays (the disk is as before
\* also when touch fails)
write_file(d, p) ==
    With(d, LAMBDA disk : With(touch_path(disk, p), LAMBDA e :
        IF e = None \/ e \in DOMAIN disk THEN disk ELSE Put(disk, e, File)))

\* rm -rf that leaves what is below the root's first level
rm_rf_shallow(d, root) ==
    [q \in {r \in DOMAIN d : ~(IsPrefix(root, r) /\ Len(r) <= Len(root) + 1)} |-> d[q]]

\* what `rm -rf root` is to remove: the entry root names with all that is
\* below it (a link is removed, not what it leads to); when root ends with a
\* slash, a directory likewise, of a link to a directory what is below that
\* directory, of anything else nothing
rm_rf_targets(d, root) ==
    With(entry_path(d, root), LAMBDA e :
        IF e = None \/ e \notin DOMAIN d THEN {}
        ELSE IF ~trailing(root) \/ d[e].kind = "dir" THEN {r \in DOMAIN d : IsPrefix(e, r)}
        ELSE With(Resolve(d, root), LAMBDA to :
                IF to = None THEN {} ELSE {r \in DOMAIN d : IsPrefix(to, r) /\ r # to}))

\* `rm -rf root` refuses or cannot do its work: root is "/" or leads to it
\* when followed, names a directory by "." or "..", or its directory part
\* holds too many links
rm_rf_refuses(d, root) ==
    /\ root # <<>>
    /\ With(d, LAMBDA disk : With(Strip(IF IsAbs(root) THEN root ELSE Cwd \o root), LAMBDA q :
           \/ Len(q) = 1
           \/ q[Len(q)] \in {".", ".."}
                /\ (Resolve(disk, q) # None \/ too_many_links(disk, q))
           \/ q[Len(q)] \notin {".", ".."} /\ too_many_links(disk, SubSeq(q, 1, Len(q) - 1))
           \/ trailing(root) /\ Resolve(disk, root) = <<"/">>))

\* effect of a successful `rm -rf root`
rm_rf(d, root) ==
    With(d, LAMBDA disk : With(rm_rf_targets(disk, root), LAMBDA below :
        IF rm_rf_refuses(disk, root) THEN disk
        ELSE [q \in (DOMAIN disk) \ below |-> disk[q]]))

\* what a failing `rm -rf root` may leave behind: it removes from the bottom
\* up and goes on after an entry it cannot remove, so any part of what it is
\* to remove may be gone, the directories above everything left are left,
\* and something is left; nothing is removed when it refuses
rm_rf_failed(d, root) ==
    With(d, LAMBDA disk : With(rm_rf_targets(disk, root), LAMBDA below :
        IF rm_rf_refuses(disk, root) THEN {disk}
        ELSE {[q \in ((DOMAIN disk) \ below) \cup K |-> disk[q]] :
                K \in {L \in SUBSET below :
                         /\ \A r \in L : \A n \in 1..Len(r) :
                               SubSeq(r, 1, n) \in below => SubSeq(r, 1, n) \in L
                         /\ below # {} => L # {}}}))

----------------------------------------------------------------------------
\* Output lines and command vectors.

S(s) == <<s>>

RECURSIVE JoinFrom(_, _)
JoinFrom(cmd, i) ==
    IF i > Len(cmd) THEN <<>>
    ELSE IF i = Len(cmd) THEN cmd[i]
    ELSE cmd[i] \o <<" ">> \o JoinFrom(cmd, i + 1)

\* ' '.join(cmd): the literal command line
join_cmd(cmd) == JoinFrom(cmd, 1)

Echo(cmd) == [kind |-> "echo", text |-> join_cmd(cmd)]

\* note(message): "--- <program>: note: <message>"
note(message) == [kind |-> "note", text |-> S(message)]

\* error(message): "--- <program>: error: <message>", then SystemExit(1)
error(message) == [kind |-> "error", text |-> S(message)]

\* the interpreter's report of an exception nothing caught
Traceback(exc) == [kind |-> "traceback", text |-> S(exc)]

\* argparse's usage message on a command line it rejects
Usage(message) == [kind |-> "usage", text |-> S(message)]

ExitCode(e) == CASE e = "ok" -> 0
                 [] e = "error" -> 1
                 [] e = "traceback" -> 1
                 [] e = "usage" -> 2
                 [] OTHER -> -1

\* call with the failing command line left unprinted unless verbose
call_lines_quiet(verbose, cmd, ok) ==
    (IF verbose THEN <<Echo(cmd)>> ELSE <<>>)
    \o (IF ok THEN <<>> ELSE <<Traceback("UnboundLocalError")>>)

\* call(args, cmd, cwd): what it prints.  check_call raises on a nonzero exit or
\* a failed spawn, so `result` is unbound in the handler: the command line is
\* printed (when not verbose), then formatting the message raises
\* UnboundLocalError before error() is entered.
call_lines(verbose, cmd, ok) ==
    (IF verbose THEN <<Echo(cmd)>> ELSE <<>>)
    \o (IF ok THEN <<>>
        ELSE (IF ~verbose THEN <<Echo(cmd)>> ELSE <<>>)
             \o <<Traceback("UnboundLocalError")>>)

\* call with the failure swallowed
call_exit_swallowed(ok) == "running"

\* call(args, cmd, cwd): how the run goes on
call_exit(ok) == IF ok THEN "running" ELSE "traceback"

\* call_output(args, cmd): what it prints itself (the caller handles the failure)
call_output_lines(verbose, cmd) == IF verbose THEN <<Echo(cmd)>> ELSE <<>>

\* an entry of the log of launched commands; stage is the pipeline stage (1-4)
\* the command belongs to, 0 for a command outside the stages
Launched(cmd, cwd, step, stage, ok) ==
    [argv |-> cmd, cwd |-> cwd, step |-> step, stage |-> stage, ok |-> ok]

PcAfter(e, next) == IF e = "running" THEN next ELSE "exited"

----------------------------------------------------------------------------
\* Argument parsing.

GlobalAttrs == {"command", "func", "build_dir", "verbose"}

BuildAttrs == GlobalAttrs \cup {"swiftc_path", "release"}

\* the attributes main()'s parsers define: add_global_args for clean,
\* add_build_args for build and for test (add_test_args is never used)
ParserAttrs(command) == IF command = "clean" THEN GlobalAttrs ELSE BuildAttrs

\* the attributes the stage functions read beyond those the parsers define
StageAttrs == {"llbuild_build_dir", "llbuild_source_dir", "llbuild_link_framework",
               "bootstrap_dir", "install_prefixes", "install_libspm",
               "parallel", "filter"}

EmptyNamespace ==
    [command |-> "", build_dir |-> None, verbose |-> FALSE,
     swiftc_path |-> None, release |-> FALSE,
     llbuild_build_dir |-> None, llbuild_source_dir |-> None,
     llbuild_link_framework |-> FALSE, bootstrap_dir |-> None,
     install_prefixes |-> <<>>, install_libspm |-> FALSE,
     parallel |-> FALSE, filter |-> <<>>,
     target_dir |-> None, conf |-> "", bin_dir |-> None]

\* parse_args rejects flags the verb's parser does not define (--filter is
\* defined by add_test_args only, --swiftc and --release by add_build_args
\* only) and verbs without a subparser (install)
parse_rejects(v) ==
    \/ v.filter # <<>>
    \/ v.command = "install"
    \/ v.command = "clean" /\ (Truthy(v.swiftc_path) \/ v.release)

\* the Namespace parse_args builds
parse_args(v) ==
    IF v.command = "clean"
    THEN [EmptyNamespace EXCEPT !.command = v.command, !.build_dir = v.build_dir,
                                !.verbose = v.verbose]
    ELSE [EmptyNamespace EXCEPT !.command = v.command, !.build_dir = v.build_dir,
                                !.verbose = v.verbose, !.swiftc_path = v.swiftc_path,
                                !.release = v.release]

----------------------------------------------------------------------------
\* Build-related helper functions.

\* the query for the SDK path the script makes when it is loaded on Darwin
XcrunShowSdkPath == <<S("xcrun"), S("--sdk"), S("macosx"), S("--show-sdk-path")>>

XcrunFind == <<S("xcrun"), S("--find"), S("swiftc")>>

WhichSwiftc == <<S("which"), S("swiftc")>>

ClangPrintTriple == <<S("clang"), S("--print-target-triple")>>

\* what `xcrun --find swiftc` / `which swiftc` print when they succeed
DiscoveredSwiftc == <<"/", "usr", "bin", "swiftc">>

\* os.lstat(p) finds a symbolic link (p is taken from the working directory
\* when relative)
islink(d, p) == abspath(p) \in DOMAIN d /\ d[abspath(p)].kind = "link"

\* posixpath._joinrealpath, the ".." case: the path one component shorter
pardir_of(path) ==
    IF path = <<>> THEN <<"..">>
    ELSE IF path = <<"/">> THEN path
    ELSE IF path[Len(path)] = ".." THEN Append(path, "..")
    ELSE SubSeq(path, 1, Len(path) - 1)

\* posixpath._joinrealpath(path, rest, strict=False, seen): rest is walked
\* component by component from path; a link met for the first time is
\* resolved from the directory it is in and remembered in seen, a link met
\* again gives what is remembered, a link met while it is being resolved ends
\* the walk (ok is FALSE) with the rest joined on unresolved
\* join(path, rest) where rest is what follows a component's slash: it is an
\* absolute path when it begins with a slash (the component was followed by
\* two), and then path is dropped
join_rest(path, rest) ==
    IF Len(rest) >= 2 /\ Head(rest) = ""
    THEN (IF Tail(rest) = <<"">> THEN <<"/">> ELSE <<"/">> \o Tail(rest))
    ELSE join(path, IF rest = <<"">> THEN <<>> ELSE rest)

RECURSIVE joinrealpath(_, _, _, _)
joinrealpath(d, path, rest, seen) ==
    IF rest = <<>> THEN [path |-> path, ok |-> TRUE, seen |-> seen]
    ELSE LET name == Head(rest)
             newpath == Append(path, name)
         IN  IF name \in {"", "."} THEN joinrealpath(d, path, Tail(rest), seen)
             ELSE IF name = ".." THEN joinrealpath(d, pardir_of(path), Tail(rest), seen)
             ELSE IF ~islink(d, newpath) THEN joinrealpath(d, newpath, Tail(rest), seen)
             ELSE IF newpath \in DOMAIN seen
             THEN IF seen[newpath].done
                  THEN joinrealpath(d, seen[newpath].path, Tail(rest), seen)
                  ELSE [path |-> join_rest(newpath, Tail(rest)), ok |-> FALSE, seen |-> seen]
             ELSE LET t == d[abspath(newpath)].target
                      pending == [q \in (DOMAIN seen) \cup {newpath} |->
                                     IF q = newpath THEN [done |-> FALSE, path |-> None]
                                     ELSE seen[q]]
                      sub == IF IsAbs(t) THEN joinrealpath(d, <<"/">>, Tail(t), pending)
                             ELSE joinrealpath(d, path, t, pending)
                  IN  IF ~sub.ok
                      THEN [path |-> join_rest(sub.path, Tail(rest)), ok |-> FALSE, seen |-> sub.seen]
                      ELSE joinrealpath(d, sub.path, Tail(rest),
                                        [sub.seen EXCEPT ![newpath] = [done |-> TRUE, path |-> sub.path]])

\* os.path.realpath(p): abspath of the walk from the empty path
realpath(d, p) ==
    LET nothing_seen == [q \in {} |-> [done |-> FALSE, path |-> None]]
    IN  abspath(IF IsAbs(p) THEN joinrealpath(d, <<"/">>, Tail(p), nothing_seen).path
                ELSE joinrealpath(d, <<>>, p, nothing_seen).path)

\* get_swiftc_path, SWIFT_EXEC branch: realpath, then 'swift' -> 'swiftc'
swift_exec_path(d, hint) ==
    LET swiftc_path == realpath(d, hint)
    IN  IF basename(swiftc_path) = "swift"
        THEN SubSeq(swiftc_path, 1, Len(swiftc_path) - 1) \o <<"swiftc">>
        ELSE swiftc_path

\* the discovery command get_swiftc_path runs when SWIFT_EXEC is not set
discovery_cmd(h) == IF h.darwin THEN XcrunFind ELSE WhichSwiftc

\* get_build_target answering with the Darwin triple on every platform
get_build_target_darwin(h) == DarwinTriple

\* get_build_target on Darwin / elsewhere (when clang answers)
get_build_target(h) == IF h.darwin THEN DarwinTriple ELSE ClangTriple

\* get_llbuild_source_path: g_project_root/../llbuild
llbuild_path == join(g_project_root, <<"..", "llbuild">>)

\* get_llbuild_cmake_arg
get_llbuild_cmake_arg(a) ==
    IF a.llbuild_link_framework
    THEN S("-DLLBUILD_FRAMEWORK=") \o a.llbuild_build_dir
    ELSE S("-DLLBuild_DIR=") \o join(a.llbuild_build_dir, <<"cmake", "modules">>)

\* the library search path with the target directory for the llbuild one
libs_joined_target(a) ==
    join(a.bootstrap_dir, <<"lib">>) \o S(":") \o join(a.target_dir, <<"lib">>)

\* the value of DYLD_LIBRARY_PATH and LD_LIBRARY_PATH
libs_joined(a) ==
    join(a.bootstrap_dir, <<"lib">>) \o S(":") \o join(a.llbuild_build_dir, <<"lib">>)

\* get_swiftpm_env_cmd with LD_LIBRARY_PATH left at the bootstrap libraries
get_swiftpm_env_cmd_split(a) ==
    <<S("env"),
      S("SWIFT_EXEC=") \o a.swiftc_path,
      S("SWIFTPM_BUILD_DIR=") \o a.build_dir,
      S("SWIFTPM_PD_LIBS=") \o join(a.bootstrap_dir, <<"pm">>)>>
    \o (IF a.llbuild_link_framework
        THEN <<S("DYLD_FRAMEWORK_PATH=") \o a.llbuild_build_dir, S("SWIFTPM_BOOTSTRAP=1")>>
        ELSE <<S("SWIFTCI_USE_LOCAL_DEPS=1")>>)
    \o <<S("DYLD_LIBRARY_PATH=") \o libs_joined(a),
         S("LD_LIBRARY_PATH=") \o join(a.bootstrap_dir, <<"lib">>)>>

\* get_swiftpm_env_cmd
get_swiftpm_env_cmd(a) ==
    <<S("env"),
      S("SWIFT_EXEC=") \o a.swiftc_path,
      S("SWIFTPM_BUILD_DIR=") \o a.build_dir,
      S("SWIFTPM_PD_LIBS=") \o join(a.bootstrap_dir, <<"pm">>)>>
    \o (IF a.llbuild_link_framework
        THEN <<S("DYLD_FRAMEWORK_PATH=") \o a.llbuild_build_dir, S("SWIFTPM_BOOTSTRAP=1")>>
        ELSE <<S("SWIFTCI_USE_LOCAL_DEPS=1")>>)
    \o <<S("DYLD_LIBRARY_PATH=") \o libs_joined(a),
         S("LD_LIBRARY_PATH=") \o libs_joined(a)>>

ReleaseFlags == <<S("-Xswiftc"), S("-enable-testing"), S("--configuration"), S("release")>>

\* get_swiftpm_flags with the release test dropped
get_swiftpm_flags_always_release(a) == <<S("--disable-index-store")>> \o ReleaseFlags

\* get_swiftpm_flags
get_swiftpm_flags(a) ==
    <<S("--disable-index-store")>> \o (IF a.release THEN ReleaseFlags ELSE <<>>)

\* call_swiftpm: the full command vector
swiftpm_cmd(a, cmd) == get_swiftpm_env_cmd(a) \o cmd \o get_swiftpm_flags(a)

\* build_swiftpm_with_swiftpm: the command handed to call_swiftpm
swift_build_cmd(a) == <<join(a.bootstrap_dir, <<"bin", "swift-build">>), S("--build-tests")>>

RECURSIVE FilterArgs(_, _)
FilterArgs(filter, i) ==
    IF i > Len(filter) THEN <<>>
    ELSE <<S("--filter"), S(filter[i])>> \o FilterArgs(filter, i + 1)

\* test: the command handed to call_swiftpm
swift_test_cmd(a) ==
    <<join(a.bin_dir, <<"swift-test">>)>>
    \o (IF a.parallel THEN <<S("--parallel")>> ELSE <<>>)
    \o FilterArgs(a.filter, 1)

\* build_with_cmake: the configure command
cmake_cmd(h, a, cmake_args, source_path) ==
    <<S("cmake"), S("-G"), S("Ninja"), S("-DCMAKE_BUILD_TYPE:=Debug"),
      S("-DCMAKE_Swift_FLAGS=") \o (IF h.darwin THEN S("-sdk ") \o g_default_sysroot ELSE <<>>),
      S("-DCMAKE_Swift_COMPILER:=") \o a.swiftc_path>>
    \o cmake_args \o <<source_path>>

\* build_with_cmake: the compile command
ninja_cmd(a) == <<S("ninja")>> \o (IF a.verbose THEN <<S("-v")>> ELSE <<>>)

\* build_with_cmake configuring whatever the build directory holds
needs_configure_always(d, build_dir) == TRUE

\* build_with_cmake: "Run CMake if needed"
needs_configure(d, build_dir) == ~isfile(d, join(build_dir, <<"CMakeCache.txt">>))

\* build_llbuild: the arguments it hands to build_with_cmake
llbuild_cmake_args ==
    <<S("-DCMAKE_C_COMPILER:=clang"), S("-DCMAKE_CXX_COMPILER:=clang++"),
      S("-DLLBUILD_SUPPORT_BINDINGS:=Swift"),
      S("-DSQLite3_INCLUDE_DIR=") \o g_default_sysroot \o S("/usr/include")>>

\* build_swiftpm_with_cmake: the arguments it hands to build_with_cmake
swiftpm_cmake_args(a) ==
    <<get_llbuild_cmake_arg(a),
      S("-DSWIFTPM_BUILD_DIR=") \o a.bin_dir,
      S("-DUSE_VENDORED_TSC=ON"),
      S("-DCMAKE_INSTALL_PREFIX=") \o a.install_prefixes[1],
      S("-DINSTALL_LIBSWIFTPM=") \o S(IF a.install_libspm THEN "ON" ELSE "OFF")>>

\* build with llbuild built whether or not its build path is passed in
llbuild_needed_always(a) == TRUE

\* build with llbuild built only when the commands are not echoed
llbuild_needed_when_quiet(a) == ~Truthy(a.llbuild_build_dir) /\ ~a.verbose

\* build: "Build llbuild if its build path is not passed in"
llbuild_needed(a) == ~Truthy(a.llbuild_build_dir)

\* every verb going on to the test runner after the build
after_build_always_test(command) == "test_note"

\* main / test / install: what follows a completed build for the verb
after_build(command) ==
    IF command = "test" THEN "test_note"
    ELSE IF command = "install" THEN "install"
    ELSE "exited"

\* symlink_force, lines 354-355: the name the link is made under
link_path(d, target, link_name) ==
    IF isdir(d, link_name)
    THEN join(link_name, S(basename(target)))
    ELSE link_name

\* os.symlink(target, p): the disk afterwards and the error, if any; no link
\* is made to the empty target, nor under a name that ends with a slash
symlink(d, target, p) ==
    With(d, LAMBDA disk : With(entry_path(disk, p), LAMBDA e :
        IF target = <<>> THEN [disk |-> disk, err |-> "ENOENT"]
        ELSE IF e # None /\ e \notin DOMAIN disk /\ trailing(p)
        THEN [disk |-> disk, err |-> "ENOENT"]
        ELSE make_at(disk, e, Link(target))))

\* os.remove(p): a directory is not removed, nor anything named with a slash
\* at the end
remove(d, p) ==
    With(d, LAMBDA disk : With(entry_path(disk, p), LAMBDA e :
        IF e = None \/ e \notin DOMAIN disk THEN [disk |-> disk, err |-> "ENOENT"]
        ELSE IF disk[e].kind = "dir" THEN [disk |-> disk, err |-> "EISDIR"]
        ELSE IF trailing(p) THEN [disk |-> disk, err |-> "ENOTDIR"]
        ELSE [disk |-> Without(disk, e), err |-> "ok"]))

\* symlink_force, lines 359-363: after EEXIST the entry in the way is removed
\* and the link is made again
symlink_again(cleared, target, ln) ==
    IF cleared.err # "ok" THEN cleared
    ELSE symlink(cleared.disk, target, ln)

\* symlink_force, lines 354-363: the link is made under the name chosen; any
\* error but EEXIST is raised
symlink_force_outcome(d, target, link_name) ==
    With(d, LAMBDA disk : With(link_path(disk, target, link_name), LAMBDA ln :
        With(symlink(disk, target, ln), LAMBDA first :
            IF first.err # "EEXIST" THEN first
            ELSE With(remove(disk, ln), LAMBDA cleared : symlink_again(cleared, target, ln)))))

\* symlink_force raises
symlink_force_raises(d, target, link_name) ==
    symlink_force_outcome(d, target, link_name).err # "ok"

\* symlink_force that makes no link at all
symlink_force_skipped(d, target, link_name) == d

\* symlink_force with an existing entry left in place (EEXIST swallowed)
symlink_force_keep(d, target, link_name) ==
    symlink(d, target, link_path(d, target, link_name)).disk

\* symlink_force: the disk afterwards, whether it raises or not
symlink_force(d, target, link_name) == symlink_force_outcome(d, target, link_name).disk

----------------------------------------------------------------------------
\* Initial states: the host, the invocation and the disk it finds.

Commands == {"clean", "build", "test"}

\* the functions a caller can hand a Namespace to
Functions == Commands \cup {"install"}

\* "cli": main() parses a command line.  "api": clean(args), build(args) or
\* test(args) is called with a Namespace that carries every attribute the
\* stage functions read.
Entries == {"cli", "api"}

FilterLists == UNION {[1..n -> FilterNames] : n \in 0..MaxFilters}

\* --build-dir (the default, relative to the working directory)
DefaultBuildDir == <<".build">>

\* --swiftc: not given, or a path relative to the working directory
SwiftcArgs == {None, <<"tc", "bin", "swiftc">>}

\* SWIFT_EXEC: not set, or the path of the interpreter
EnvHints == {None, <<"/", "env", "bin", "swift">>}

\* a pre-built llbuild handed in by the caller
SuppliedLlbuild == <<"/", "ext", "llbuild">>

\* a bootstrap directory outside the build root
OutsideBootstrap == <<"/", "ext", "bootstrap">>

InstallPrefix == <<"/", "usr", "local">>

TargetDirOf(h, build_dir) == join(abspath(build_dir), get_build_target(h))

LlbuildDirOf(h, build_dir) == join(TargetDirOf(h, build_dir), <<"llbuild">>)

InsideBootstrap(h, build_dir) == join(TargetDirOf(h, build_dir), <<"bootstrap">>)

RuntimesDirOf(h, build_dir) == join(TargetDirOf(h, build_dir), <<"lib", "swift">>)

RootDisk == [q \in {<<"/">>} |-> Dir]

BaseDisk == mkdir_p(mkdir_p(RootDisk, Cwd), g_project_root)

WithCache(d, build_dir) == write_file(mkdir_p(d, build_dir), join(build_dir, <<"CMakeCache.txt">>))

\* what an earlier run may have left behind
InitialDisk(h, build_dir, bootstrap_dir, src, llbCache, bootCache, rtLink) ==
    LET d1 == IF src THEN mkdir_p(BaseDisk, llbuild_path) ELSE BaseDisk
        d2 == IF llbCache THEN WithCache(d1, LlbuildDirOf(h, build_dir)) ELSE d1
        d3 == IF bootCache THEN WithCache(d2, bootstrap_dir) ELSE d2
        rt == RuntimesDirOf(h, build_dir)
    IN  IF rtLink
        THEN Put(mkdir_p(d3, rt), join(rt, <<"pm">>), Link(<<"/", "old", "pm">>))
        ELSE d3

\* no first pass to compare with
NoTwin == [pass |-> 1, cmds |-> <<>>, exit |-> "running", fs |-> RootDisk]

NoCall == [cmake_args |-> <<>>, source_path |-> None, build_dir |-> None, stage |-> 0]

\* the Namespace a run starts from: nothing before main() has parsed the
\* command line; everything the caller put there when a function is called
api_namespace(v) ==
    [parse_args(v) EXCEPT
        !.swiftc_path = v.swiftc_path, !.release = v.release,
        !.llbuild_build_dir = v.llbuild_build_dir,
        !.llbuild_link_framework = v.llbuild_link_framework,
        !.bootstrap_dir = v.bootstrap_dir,
        !.install_prefixes = <<InstallPrefix>>,
        !.parallel = v.parallel, !.filter = v.filter]

\* a process (or call) starts: v is the invocation, d the disk it finds
Start(v, d) ==
    /\ argv = [v EXCEPT !.disk = d]
    /\ args = IF v.entry = "cli" THEN EmptyNamespace ELSE api_namespace(v)
    /\ attrs = IF v.entry = "cli" THEN {} ELSE BuildAttrs \cup StageAttrs
    /\ fs = d
    /\ pc = "load"
    /\ ret = "build"
    /\ bwc = NoCall
    /\ cmds = <<>>
    /\ out = <<>>
    /\ exit = "running"

Init ==
    \E darwin \in BOOLEAN, bootIn \in BOOLEAN,
       src \in BOOLEAN, llbCache \in BOOLEAN, bootCache \in BOOLEAN, rtLink \in BOOLEAN :
      \E bd \in {IF bootIn
                 THEN InsideBootstrap([darwin |-> darwin, swift_exec |-> None], DefaultBuildDir)
                 ELSE OutsideBootstrap} :
      \E d \in {InitialDisk([darwin |-> darwin, swift_exec |-> None], DefaultBuildDir, bd,
                             src, llbCache, bootCache, rtLink)} :
      \E hint \in EnvHints, entry \in Entries, command \in Functions,
         verbose \in BOOLEAN, release \in BOOLEAN, swiftc \in SwiftcArgs,
         filter \in FilterLists, parallel \in BOOLEAN,
         llb \in {None, SuppliedLlbuild}, fw \in BOOLEAN :
        LET h  == [darwin |-> darwin, swift_exec |-> hint]
            v  == [entry |-> entry, command |-> command, build_dir |-> DefaultBuildDir,
                   verbose |-> verbose, swiftc_path |-> swiftc, release |-> release,
                   filter |-> filter, parallel |-> parallel,
                   llbuild_build_dir |-> llb, llbuild_link_framework |-> fw,
                   bootstrap_dir |-> bd, disk |-> d]
        IN  /\ command = "clean" => swiftc = None /\ ~release
            /\ command # "test" => filter = <<>> /\ parallel
            /\ entry = "cli" => llb = None /\ ~fw /\ bootIn /\ parallel
            \* the command line has no install verb: it is rejected whatever the flags
            /\ (entry = "cli" /\ command = "install") => swiftc = None /\ ~release
            \* SWIFT_EXEC is not read when --swiftc is given, ../llbuild is not
            \* looked for when llbuild is passed in
            /\ swiftc # None => hint = None
            \* filters only add arguments to the test runner's command line
            /\ Len(filter) > 1 => ~verbose /\ ~release /\ llbCache /\ ~rtLink
            \* install is build followed by one more command
            /\ command = "install" => ~release /\ ~rtLink
            /\ llb # None => src
            \* a link left by an earlier build only matters to make_symlinks
            /\ rtLink => ~verbose /\ ~release /\ ~fw /\ bootIn
            /\ host = h
            /\ run = 1
            /\ twin = NoTwin
            /\ Start(v, d)

----------------------------------------------------------------------------
\* The program.

\* an exception nothing catches: the interpreter prints a traceback, status 1
Raise(exc) ==
    /\ out' = Append(out, Traceback(exc))
    /\ exit' = "traceback"
    /\ pc' = "exited"

\* how check_output fails when nothing handles it: CalledProcessError when the
\* program exits with a nonzero status, OSError (FileNotFoundError) when it
\* cannot be launched
QueryFailures == {"CalledProcessError", "OSError"}

\* the script is loaded (lines 40-46): on Darwin the SDK path is asked of xcrun
\* with check_output, whose failure nothing catches; then main() or the
\* function called
load ==
    /\ pc = "load"
    /\ \E ok \in BOOLEAN, exc \in QueryFailures :
        /\ ~host.darwin => ok
        /\ cmds' = IF host.darwin
                   THEN Append(cmds, Launched(XcrunShowSdkPath, None, "sysroot", 0, ok))
                   ELSE cmds
        /\ out' = IF ok THEN out ELSE Append(out, Traceback(exc))
        /\ exit' = IF ok THEN "running" ELSE "traceback"
        /\ pc' = PcAfter(exit', IF argv.entry = "cli" THEN "main"
                                ELSE IF argv.command = "clean" THEN "clean"
                                ELSE "get_swiftc_path")
    /\ UNCHANGED <<twin, host, argv, run, args, attrs, fs, ret, bwc>>

\* main(): parse the command line and dispatch on the verb
main ==
    /\ pc = "main"
    /\ IF parse_rejects(argv)
       THEN /\ out' = Append(out, Usage(IF argv.command = "install" THEN "invalid choice"
                                         ELSE "unrecognized arguments"))
            /\ exit' = "usage"
            /\ pc' = "exited"
            /\ UNCHANGED <<args, attrs>>
       ELSE /\ args' = parse_args(argv)
            /\ attrs' = ParserAttrs(argv.command)
            /\ pc' = IF argv.command = "clean" THEN "clean" ELSE "get_swiftc_path"
            /\ UNCHANGED <<out, exit>>
    /\ UNCHANGED <<twin, host, argv, run, fs, ret, bwc, cmds>>

\* clean(args): note, clean_global_args, rm -rf of the build root; when rm
\* fails, what it had removed by then stays removed
clean ==
    /\ pc = "clean"
    /\ \E ok \in BOOLEAN :
        LET build_dir == abspath(args.build_dir)
            cmd == <<S("rm"), S("-rf"), build_dir>>
        IN  /\ rm_rf_refuses(fs, build_dir) => ~ok
            /\ args' = [args EXCEPT !.build_dir = build_dir]
            /\ cmds' = Append(cmds, Launched(cmd, None, "clean", 0, ok))
            /\ out' = out \o <<note("Cleaning")>> \o call_lines(args.verbose, cmd, ok)
            /\ fs' \in IF ok THEN {rm_rf(fs, build_dir)} ELSE rm_rf_failed(fs, build_dir)
            /\ exit' = IF ok THEN "ok" ELSE call_exit(ok)
            /\ pc' = "exited"
    /\ UNCHANGED <<twin, host, argv, run, attrs, ret, bwc>>

\* clean_build_args, lines 124-129: absolute paths and the compiler
clean_build_args_swiftc ==
    /\ pc = "get_swiftc_path"
    /\ LET build_dir == abspath(args.build_dir)
       IN  IF Truthy(args.swiftc_path)
           THEN /\ args' = [args EXCEPT !.build_dir = build_dir,
                                        !.swiftc_path = abspath(args.swiftc_path)]
                /\ pc' = "get_build_target"
                /\ UNCHANGED <<cmds, out, exit>>
           ELSE IF Truthy(host.swift_exec)
           THEN /\ args' = [args EXCEPT !.build_dir = build_dir,
                                        !.swiftc_path = swift_exec_path(fs, host.swift_exec)]
                /\ pc' = "get_build_target"
                /\ UNCHANGED <<cmds, out, exit>>
           ELSE \E ok \in BOOLEAN :
                /\ cmds' = Append(cmds, Launched(discovery_cmd(host), None, "discover", 0, ok))
                /\ args' = [args EXCEPT !.build_dir = build_dir,
                                        !.swiftc_path = IF ok THEN DiscoveredSwiftc ELSE None]
                /\ out' = out \o call_output_lines(args.verbose, discovery_cmd(host))
                            \o (IF ok THEN <<>> ELSE <<error("unable to find 'swiftc' tool for bootstrap build")>>)
                /\ exit' = IF ok THEN "running" ELSE "error"
                /\ pc' = PcAfter(exit', "get_build_target")
    /\ UNCHANGED <<twin, host, argv, run, attrs, fs, ret, bwc>>

\* clean_build_args, lines 130-132: the target triple and the output directories
clean_build_args_target ==
    /\ pc = "get_build_target"
    /\ \E ok \in BOOLEAN, exc \in QueryFailures :
        LET target_dir == join(args.build_dir, get_build_target(host))
            conf == IF args.release THEN "release" ELSE "debug"
        IN  /\ host.darwin => ok
            /\ cmds' = IF host.darwin THEN cmds
                       ELSE Append(cmds, Launched(ClangPrintTriple, None, "triple", 0, ok))
            /\ out' = out \o (IF host.darwin THEN <<>>
                              ELSE call_output_lines(args.verbose, ClangPrintTriple)
                                   \o (IF ok THEN <<>> ELSE <<Traceback(exc)>>))
            /\ exit' = IF ok THEN "running" ELSE "traceback"
            /\ pc' = PcAfter(exit', ret)
            /\ args' = IF ok
                       THEN [args EXCEPT !.target_dir = target_dir, !.conf = conf,
                                         !.bin_dir = join(target_dir, S(conf))]
                       ELSE args
            /\ attrs' = IF ok THEN attrs \cup {"target_dir", "conf", "bin_dir"} ELSE attrs
    /\ UNCHANGED <<twin, host, argv, run, fs, ret, bwc>>

\* build(args), line 153: is a pre-built llbuild passed in?
build ==
    /\ pc = "build"
    /\ IF "llbuild_build_dir" \notin attrs
       THEN Raise("AttributeError")
       ELSE /\ pc' = IF llbuild_needed(args) THEN "build_llbuild" ELSE "build_swiftpm_with_cmake"
            /\ UNCHANGED <<out, exit>>
    /\ UNCHANGED <<twin, host, argv, run, args, attrs, fs, ret, bwc, cmds>>

\* build_llbuild(args), up to its call of build_with_cmake
build_llbuild ==
    /\ pc = "build_llbuild"
    /\ \E ok \in BOOLEAN :
        LET llbuild_build_dir == join(args.target_dir, <<"llbuild">>)
            api_dir == join(llbuild_build_dir, <<".cmake", "api", "v1", "query">>)
            touch == <<S("touch"), S("codemodel-v2")>>
            noted == Append(out, note("Building llbuild"))
            a1 == [args EXCEPT !.llbuild_build_dir = llbuild_build_dir]
            d1 == mkdir_p(fs, api_dir)
            d2 == write_file(d1, join(api_dir, <<"codemodel-v2">>))
            source == IF Truthy(args.llbuild_source_dir)
                      THEN args.llbuild_source_dir ELSE llbuild_path
        IN  /\ args' = a1
            /\ attrs' = attrs \cup {"llbuild_build_dir"}
            /\ IF mkdir_p_raises(fs, api_dir)
               THEN /\ ok
                    /\ out' = Append(noted, Traceback("OSError"))
                    /\ exit' = "traceback"
                    /\ fs' = d1
                    /\ UNCHANGED <<cmds, bwc>>
               ELSE /\ write_file_fails(d1, join(api_dir, <<"codemodel-v2">>)) => ~ok
                    /\ cmds' = Append(cmds, Launched(touch, api_dir, "touch", 1, ok))
                    /\ fs' = IF ok THEN d2 ELSE d1
                    /\ IF ~ok
                       THEN /\ out' = noted \o call_lines(args.verbose, touch, ok)
                            /\ exit' = call_exit(ok)
                            /\ UNCHANGED bwc
                       ELSE IF "llbuild_source_dir" \notin attrs
                       THEN /\ out' = (noted \o call_lines(args.verbose, touch, ok))
                                        \o <<Traceback("AttributeError")>>
                            /\ exit' = "traceback"
                            /\ UNCHANGED bwc
                       ELSE IF ~Truthy(args.llbuild_source_dir) /\ ~Exists(d2, llbuild_path)
                       THEN /\ out' = (noted \o call_lines(args.verbose, touch, ok))
                                        \o <<note("clone llbuild next to swiftpm directory"),
                                             error("unable to find llbuild source directory")>>
                            /\ exit' = "error"
                            /\ UNCHANGED bwc
                       ELSE IF ~host.darwin
                       THEN /\ out' = (noted \o call_lines(args.verbose, touch, ok))
                                        \o <<Traceback("NameError")>>
                            /\ exit' = "traceback"
                            /\ UNCHANGED bwc
                       ELSE /\ out' = noted \o call_lines(args.verbose, touch, ok)
                            /\ exit' = "running"
                            /\ bwc' = [cmake_args |-> llbuild_cmake_args, source_path |-> source,
                                       build_dir |-> llbuild_build_dir, stage |-> 1]
            /\ pc' = PcAfter(exit', "cmake")
    /\ UNCHANGED <<twin, host, argv, run, ret>>

\* build_with_cmake, lines 270-287: run CMake if needed
build_with_cmake_configure ==
    /\ pc = "cmake"
    /\ \E ok \in BOOLEAN :
        LET cmd == cmake_cmd(host, args, bwc.cmake_args, bwc.source_path)
            shown == out \o (IF args.verbose THEN <<Echo(cmd)>> ELSE <<>>)
            d1 == mkdir_p(fs, bwc.build_dir)
        IN  IF ~needs_configure(fs, bwc.build_dir)
            THEN /\ ok
                 /\ pc' = "ninja"
                 /\ UNCHANGED <<fs, cmds, out, exit>>
            ELSE IF mkdir_p_raises(fs, bwc.build_dir)
            THEN /\ ok
                 /\ out' = Append(shown, Traceback("OSError"))
                 /\ exit' = "traceback"
                 /\ pc' = "exited"
                 /\ fs' = d1
                 /\ UNCHANGED cmds
            ELSE /\ write_file_fails(d1, join(bwc.build_dir, <<"CMakeCache.txt">>)) => ~ok
                 /\ cmds' = Append(cmds, Launched(cmd, bwc.build_dir, "configure", bwc.stage, ok))
                 /\ fs' = IF ok THEN write_file(d1, join(bwc.build_dir, <<"CMakeCache.txt">>))
                          ELSE d1
                 /\ out' = shown \o call_lines(args.verbose, cmd, ok)
                 /\ exit' = call_exit(ok)
                 /\ pc' = PcAfter(exit', "ninja")
    /\ UNCHANGED <<twin, host, argv, run, args, attrs, ret, bwc>>

\* build_with_cmake, lines 289-295: build
build_with_cmake_compile ==
    /\ pc = "ninja"
    /\ \E ok \in BOOLEAN :
        LET cmd == ninja_cmd(args)
        IN  /\ cmds' = Append(cmds, Launched(cmd, bwc.build_dir, "compile", bwc.stage, ok))
            /\ out' = out \o call_lines(args.verbose, cmd, ok)
            /\ exit' = call_exit(ok)
            /\ pc' = PcAfter(exit', IF bwc.stage = 1 THEN "build_swiftpm_with_cmake"
                                    ELSE "make_symlinks")
    /\ UNCHANGED <<twin, host, argv, run, args, attrs, fs, ret, bwc>>

\* build_swiftpm_with_cmake(args), up to its call of build_with_cmake
build_swiftpm_with_cmake ==
    /\ pc = "build_swiftpm_with_cmake"
    /\ IF ~({"llbuild_link_framework", "llbuild_build_dir", "bin_dir", "install_prefixes",
             "install_libspm", "bootstrap_dir"} \subseteq attrs)
       THEN /\ out' = out \o <<note("Building SwiftPM (with CMake)"), Traceback("AttributeError")>>
            /\ exit' = "traceback"
            /\ pc' = "exited"
            /\ UNCHANGED bwc
       ELSE /\ out' = Append(out, note("Building SwiftPM (with CMake)"))
            /\ bwc' = [cmake_args |-> swiftpm_cmake_args(args), source_path |-> g_project_root,
                       build_dir |-> args.bootstrap_dir, stage |-> 2]
            /\ pc' = "cmake"
            /\ UNCHANGED exit
    /\ UNCHANGED <<twin, host, argv, run, args, attrs, fs, ret, cmds>>

\* make_symlinks(args), the tail of build_swiftpm_with_cmake
make_symlinks ==
    /\ pc = "make_symlinks"
    /\ LET runtimes_dir == join(args.target_dir, <<"lib", "swift">>)
           target == join(args.bootstrap_dir, <<"pm">>)
           d1 == mkdir_p(fs, runtimes_dir)
       IN  IF mkdir_p_raises(fs, runtimes_dir)
           THEN Raise("OSError") /\ fs' = d1
           ELSE IF symlink_force_raises(d1, target, runtimes_dir)
           THEN Raise("OSError") /\ fs' = symlink_force(d1, target, runtimes_dir)
           ELSE /\ fs' = symlink_force(d1, target, runtimes_dir)
                /\ pc' = "build_swiftpm_with_swiftpm"
                /\ UNCHANGED <<out, exit>>
    /\ UNCHANGED <<twin, host, argv, run, args, attrs, ret, bwc, cmds>>

\* build_swiftpm_with_swiftpm(args): the self build, then back to main or test
build_swiftpm_with_swiftpm ==
    /\ pc = "build_swiftpm_with_swiftpm"
    /\ \E ok \in BOOLEAN :
        LET cmd == swiftpm_cmd(args, swift_build_cmd(args))
            next == after_build(argv.command)
        IN  /\ cmds' = Append(cmds, Launched(cmd, g_project_root, "selfbuild", 3, ok))
            /\ out' = Append(out, note("Building SwiftPM (with swift-build)"))
                        \o call_lines(args.verbose, cmd, ok)
            /\ exit' = IF ok /\ next = "exited" THEN "ok" ELSE call_exit(ok)
            /\ pc' = PcAfter(exit', next)
    /\ UNCHANGED <<twin, host, argv, run, args, attrs, fs, ret, bwc>>

\* test(args), lines 163-164: note, then clean_test_args
test_note ==
    /\ pc = "test_note"
    /\ out' = Append(out, note("Testing"))
    /\ ret' = "test"
    /\ pc' = "get_swiftc_path"
    /\ UNCHANGED <<twin, host, argv, run, args, attrs, fs, bwc, cmds, exit>>

\* test(args), lines 165-170: launch the test runner
test ==
    /\ pc = "test"
    /\ \E ok \in BOOLEAN :
        IF ~({"parallel", "filter"} \subseteq attrs)
        THEN /\ ok
             /\ Raise("AttributeError")
             /\ UNCHANGED cmds
        ELSE LET cmd == swiftpm_cmd(args, swift_test_cmd(args))
             IN  /\ cmds' = Append(cmds, Launched(cmd, g_project_root, "test", 4, ok))
                 /\ out' = out \o call_lines(args.verbose, cmd, ok)
                 /\ exit' = IF ok THEN "ok" ELSE call_exit(ok)
                 /\ pc' = "exited"
    /\ UNCHANGED <<twin, host, argv, run, args, attrs, fs, ret, bwc>>

\* install(args), lines 176-177: note, then `ninja install` in the bootstrap directory
install ==
    /\ pc = "install"
    /\ \E ok \in BOOLEAN :
        LET cmd == <<S("ninja"), S("install")>>
        IN  /\ cmds' = Append(cmds, Launched(cmd, args.bootstrap_dir, "install", 0, ok))
            /\ out' = Append(out, note("Installing")) \o call_lines(args.verbose, cmd, ok)
            /\ exit' = IF ok THEN "ok" ELSE call_exit(ok)
            /\ pc' = "exited"
    /\ UNCHANGED <<twin, host, argv, run, args, attrs, fs, ret, bwc>>

\* the next invocation on the disk a successful clean left: clean again, or build
invoke_again ==
    /\ pc = "exited"
    /\ exit = "ok"
    /\ argv.command = "clean"
    /\ run < MaxRuns
    /\ \E command \in {"clean", "build"} :
        LET v == [argv EXCEPT !.command = command]
        IN  /\ argv' = [v EXCEPT !.disk = fs]
            /\ args' = IF v.entry = "cli" THEN EmptyNamespace ELSE api_namespace(v)
            /\ attrs' = IF v.entry = "cli" THEN {} ELSE BuildAttrs \cup StageAttrs
            /\ pc' = "load"
            /\ ret' = "build"
            /\ bwc' = NoCall
            /\ cmds' = <<>>
            /\ out' = <<>>
            /\ exit' = "running"
            /\ run' = run + 1
    /\ UNCHANGED <<twin, host, fs>>

Next ==
    \/ invoke_again
    \/ load
    \/ main
    \/ clean
    \/ clean_build_args_swiftc
    \/ clean_build_args_target
    \/ build
    \/ build_llbuild
    \/ build_with_cmake_configure
    \/ build_with_cmake_compile
    \/ build_swiftpm_with_cmake
    \/ make_symlinks
    \/ build_swiftpm_with_swiftpm
    \/ test_note
    \/ test
    \/ install

Spec == Init /\ [][Next]_vars

----------------------------------------------------------------------------
\* Properties.

Idx == 1..Len(cmds)

AllOk == \A i \in Idx : cmds[i].ok

Contains(vec, tok) == \E k \in 1..Len(vec) : vec[k] = tok

\* part occurs in vec as a run of adjacent arguments
HasRun(part, vec) ==
    \E k \in 0..(Len(vec) - Len(part)) : SubSeq(vec, k + 1, k + Len(part)) = part

\* the build root of the invocation, as the program resolves it
BuildRoot == abspath(argv.build_dir)

\* the disk the invocation found holds nothing under the build root
FreshRoot == \A p \in DOMAIN argv.disk : ~IsPrefix(BuildRoot, p)

HasDescriptor(d, dir) ==
    LET c == dir \o <<"CMakeCache.txt">> IN c \in DOMAIN d /\ d[c].kind = "file"

EndsStage(c) == c.step \in {"compile", "selfbuild", "test"}

\* the stages whose last command was launched, in order
StagesRun == LET done == SelectSeq(cmds, EndsStage) IN [i \in 1..Len(done) |-> done[i].stage]

\* C1: fail-fast without retry: a command that failed is the last command of
\* its run (nothing is launched after it, it is not run again) and the run has
\* ended with a nonzero exit status.
C1_FailFast ==
    \A i \in Idx : ~cmds[i].ok => i = Len(cmds) /\ pc = "exited" /\ ExitCode(exit) > 0

C1_Witness ==
    /\ pc = "exited" /\ ExitCode(exit) = 1
    /\ Len(cmds) >= 3 /\ ~cmds[Len(cmds)].ok /\ cmds[Len(cmds)].step = "compile"

\* C2: the build command on a fresh build root, with a valid compiler path and
\* every external command succeeding, runs stages 1, 2 and 3 once each in that
\* order and ends with exit code 0.
C2_BuildRunsStages ==
    (/\ argv.entry = "cli" /\ argv.command = "build"
     /\ FreshRoot /\ Truthy(argv.swiftc_path) /\ Exists(argv.disk, llbuild_path)
     /\ pc = "exited" /\ AllOk)
    => (exit = "ok" /\ StagesRun = <<1, 2, 3>>)

\* C3: skip-logic of build_with_cmake: with the descriptor in the build
\* directory no configure command is launched and the compile command is
\* launched once; without it the configure command is launched in that
\* directory first and the compile command only after it succeeded.
C3_SkipLogic ==
    [][/\ (pc = "cmake" /\ HasDescriptor(fs, bwc.build_dir))
            => (cmds' = cmds /\ pc' = "ninja")
       /\ (pc = "cmake" /\ ~HasDescriptor(fs, bwc.build_dir))
            => \/ cmds' = cmds /\ pc' = "exited"
               \/ /\ Len(cmds') = Len(cmds) + 1
                  /\ cmds'[Len(cmds')].step = "configure"
                  /\ cmds'[Len(cmds')].cwd = bwc.build_dir
                  /\ pc' = IF cmds'[Len(cmds')].ok THEN "ninja" ELSE "exited"
       /\ pc = "ninja"
            => /\ Len(cmds') = Len(cmds) + 1
               /\ cmds'[Len(cmds')].step = "compile"
               /\ cmds'[Len(cmds')].cwd = bwc.build_dir
               /\ pc' # "ninja"
       /\ pc' = "ninja" => pc = "cmake"
       /\ (pc' = "cmake" /\ pc = "cmake") => FALSE
      ]_vars

C3_Witness ==
    \E i \in Idx :
        /\ cmds[i].step = "compile"
        /\ HasDescriptor(argv.disk, cmds[i].cwd)
        /\ \A j \in Idx : cmds[j].cwd = cmds[i].cwd => (j = i /\ cmds[j].step = "compile")

\* C4: clean and then build on the same build root: stage 1 and stage 2 both
\* launch the configure command.
C4_CleanThenBuildConfigures ==
    (/\ run > 1 /\ argv.entry = "cli" /\ argv.command = "build"
     /\ Exists(argv.disk, llbuild_path)
     /\ pc = "exited" /\ AllOk)
    => /\ \E i \in Idx : cmds[i].step = "configure" /\ cmds[i].stage = 1
       /\ \E i \in Idx : cmds[i].step = "configure" /\ cmds[i].stage = 2

\* C5: a command run through call that failed has its literal command line in
\* the output, verbose or not.
C5_FailingCommandShown ==
    \A i \in Idx :
        (~cmds[i].ok /\ cmds[i].step \notin {"sysroot", "discover", "triple"})
        => \E k \in 1..Len(out) :
              out[k].kind = "echo" /\ out[k].text = join_cmd(cmds[i].argv)

C5_Witness ==
    /\ pc = "exited" /\ ~argv.verbose
    /\ \E i \in Idx : ~cmds[i].ok /\ cmds[i].step = "configure"

\* C6: every failure ends the process through error(): exactly one line
\* written by error and exit status 1.
C6_ExplicitAbort ==
    (pc = "exited" /\ \E i \in Idx : ~cmds[i].ok)
    => /\ exit = "error"
       /\ Cardinality({k \in 1..Len(out) : out[k].kind = "error"}) = 1

\* the argument by which stage 2 is told where llbuild is
LlbuildArg(fw, dir) ==
    IF fw THEN S("-DLLBUILD_FRAMEWORK=") \o dir
    ELSE S("-DLLBuild_DIR=") \o dir \o <<"cmake", "modules">>

\* C7: with a pre-built llbuild location supplied no stage 1 command is
\* launched, nothing changes on disk under the dependency build directory or
\* the supplied location, and stage 2 is configured with the supplied
\* location; with none supplied every stage 2 command comes after stage 1's
\* successful compile.
C7_SuppliedSkipsStage1 ==
    argv.command \in {"build", "test"} =>
        IF Truthy(argv.llbuild_build_dir)
        THEN /\ \A i \in Idx : cmds[i].stage # 1
             /\ \A p \in (DOMAIN fs) \cup (DOMAIN argv.disk) :
                    (\/ IsPrefix(LlbuildDirOf(host, argv.build_dir), p)
                     \/ IsPrefix(argv.llbuild_build_dir, p))
                    => p \in DOMAIN fs /\ p \in DOMAIN argv.disk /\ fs[p] = argv.disk[p]
             /\ \A i \in Idx :
                    (cmds[i].stage = 2 /\ cmds[i].step = "configure")
                    => Contains(cmds[i].argv,
                                LlbuildArg(argv.llbuild_link_framework, argv.llbuild_build_dir))
        ELSE \A i \in Idx :
                 cmds[i].stage = 2
                 => \E j \in 1..(i - 1) :
                        cmds[j].stage = 1 /\ cmds[j].step = "compile" /\ cmds[j].ok

C7_Witness ==
    /\ Truthy(argv.llbuild_build_dir)
    /\ \E i \in Idx : cmds[i].stage = 2 /\ cmds[i].step = "configure" /\ cmds[i].ok

\* C8: the test runner is launched only by the test command, only after the
\* self build of the same run succeeded, and at most once; a test command that
\* ends successfully has launched it last.
C8_TestAfterSelfBuild ==
    /\ \A i \in Idx :
          cmds[i].step = "test"
          => /\ argv.command = "test"
             /\ \E j \in 1..(i - 1) : cmds[j].step = "selfbuild" /\ cmds[j].ok
             /\ \A k \in Idx : cmds[k].step = "test" => k = i
    /\ (argv.command = "test" /\ pc = "exited" /\ exit = "ok")
          => (cmds # <<>> /\ cmds[Len(cmds)].step = "test")

C8_Witness ==
    /\ pc = "exited" /\ exit = "ok"
    /\ \E i \in Idx : cmds[i].step = "test"

\* C9: the test command given --filter f1 .. --filter fn launches the test
\* runner with "--parallel", "--filter", f1, .., "--filter", fn after the
\* runner path.
C9_FilterArgv ==
    (/\ argv.entry = "cli" /\ argv.command = "test"
     /\ Exists(argv.disk, llbuild_path)
     /\ pc = "exited" /\ AllOk)
    => \E i \in Idx :
          /\ cmds[i].step = "test"
          /\ HasRun(<<S("--parallel")>> \o FilterArgs(argv.filter, 1), cmds[i].argv)

\* C10: the self build's arguments always hold --disable-index-store, and
\* hold "-Xswiftc -enable-testing" and "--configuration release" exactly when
\* the invocation has --release.
C10_SelfBuildFlags ==
    \A i \in Idx :
        cmds[i].step = "selfbuild"
        => /\ Contains(cmds[i].argv, S("--disable-index-store"))
           /\ argv.release <=> HasRun(<<S("-Xswiftc"), S("-enable-testing")>>, cmds[i].argv)
           /\ argv.release <=> HasRun(<<S("--configuration"), S("release")>>, cmds[i].argv)
           /\ argv.release <=> Contains(cmds[i].argv, S("-enable-testing"))
           /\ argv.release <=> Contains(cmds[i].argv, S("--configuration"))

C10_Witness ==
    \E i \in Idx : cmds[i].step = "selfbuild" /\ argv.release /\ cmds[i].ok


\* C11 as stated: clean ends with exit code 0 and the build root absent from
\* any disk state.
C11_CleanAlwaysSucceeds ==
    (argv.command = "clean" /\ pc = "exited")
    => (exit = "ok" /\ \A p \in DOMAIN fs : ~IsPrefix(BuildRoot, p))

\* C11 (amended): clean launches no command of a build stage: besides the
\* SDK path query made when the script is loaded on Darwin it launches only
\* `rm -rf <build root>`, once.  Whenever that command succeeds the build root
\* is gone, everything else on the disk is as before and the exit code is 0,
\* on the first clean, on a repeated one and with no build root to begin with.
\* When the query fails the exit status is 1 and the disk is as found.  When
\* the rm fails the exit status is 1, nothing is added to the disk and nothing
\* outside the build root is removed; how much of the build root is left is
\* not determined.
C11_CleanRemovesRoot ==
    argv.command = "clean" =>
        /\ \A i \in Idx : cmds[i].stage = 0 /\ cmds[i].step \in {"sysroot", "clean"}
        /\ \A i \in Idx : cmds[i].step = "clean" =>
              (i = Len(cmds) /\ cmds[i].argv = <<S("rm"), S("-rf"), BuildRoot>>)
        /\ pc = "exited" /\ exit # "usage" =>
              IF cmds # <<>> /\ AllOk
              THEN /\ cmds[Len(cmds)].step = "clean"
                   /\ exit = "ok"
                   /\ \A p \in DOMAIN fs : ~IsPrefix(BuildRoot, p)
                   /\ \A p \in DOMAIN argv.disk :
                         ~IsPrefix(BuildRoot, p) => (p \in DOMAIN fs /\ fs[p] = argv.disk[p])
              ELSE /\ ExitCode(exit) = 1
                   /\ \A p \in DOMAIN fs : p \in DOMAIN argv.disk /\ fs[p] = argv.disk[p]
                   /\ \A p \in DOMAIN argv.disk : ~IsPrefix(BuildRoot, p) => p \in DOMAIN fs
                   /\ (cmds = <<>> \/ cmds[Len(cmds)].step # "clean") => fs = argv.disk

C11_Witness ==
    /\ argv.command = "clean" /\ run = 2 /\ FreshRoot
    /\ pc = "exited" /\ exit = "ok"
    /\ cmds # <<>> /\ cmds[Len(cmds)].step = "clean"


----------------------------------------------------------------------------
\* symlink_force on its own: one call after another with the same arguments,
\* on disks that hold every kind of entry at link_name.

\* the link to create, and entries it may meet
LinkName == <<"/", "w", "l">>

LinkTargets == {<<"/", "b", "pm">>, <<"/", "b", "lib">>}

SomeDir == <<"/", "d">>

SomeFile == <<"/", "f">>

Dangling == <<"/", "gone">>

OldTarget == <<"/", "old", "pm">>

\* links that lead on to the directory and to the file
HopToDir == <<"/", "hop">>

HopToFile == <<"/", "w", "hopf">>

LinkBase ==
    Put(Put(Put(mkdir_p(mkdir_p(mkdir_p(RootDisk, <<"/", "w">>), <<"/", "b">>), SomeDir),
                SomeFile, File),
            HopToDir, Link(SomeDir)),
        HopToFile, Link(<<"..", "f">>))

\* what is at link_name before the call: nothing, a file, a directory, or a
\* link: to target already, to a directory or a file (by an absolute or a
\* relative target, or through a second link), to nothing, to itself
LinkNameKinds ==
    {"absent", "file", "linked", "link_dir", "link_file", "dangling", "dir",
     "rel_link_dir", "rel_link_file", "chain_dir", "chain_file", "loop"}

\* what is at the target path, and at the entry inside a directory
TargetKinds == {"absent", "dir", "file"}

InnerKinds == {"absent", "file", "link", "dir"}

EntryOf(kind, t) ==
    CASE kind = "file"      -> File
      [] kind = "dir"       -> Dir
      [] kind = "linked"    -> Link(t)
      [] kind = "link_dir"  -> Link(SomeDir)
      [] kind = "link_file" -> Link(SomeFile)
      [] kind = "dangling"  -> Link(Dangling)
      [] kind = "link"      -> Link(OldTarget)
      [] kind = "rel_link_dir"  -> Link(<<"..", "d">>)
      [] kind = "rel_link_file" -> Link(<<"..", "w", "..", "f">>)
      [] kind = "chain_dir"     -> Link(<<"..", "hop">>)
      [] kind = "chain_file"    -> Link(<<"hopf">>)
      [] kind = "loop"          -> Link(<<"l">>)

LinkDisk(t, lk, tk, ik) ==
    LET d1 == IF tk = "absent" THEN LinkBase ELSE Put(LinkBase, t, EntryOf(tk, t))
        d2 == IF lk = "absent" THEN d1 ELSE Put(d1, LinkName, EntryOf(lk, t))
        inner == entry_path(d2, join(LinkName, S(basename(t))))
    IN  IF ik = "absent" THEN d2 ELSE Put(d2, inner, EntryOf(ik, t))

InitLink ==
    \E t \in LinkTargets, lk \in LinkNameKinds, tk \in TargetKinds, ik \in InnerKinds :
        \E d \in {LinkDisk(t, lk, tk, ik)} :
            \* an entry inside link_name needs link_name to be a directory
            /\ ik # "absent" => isdir(LinkDisk(t, lk, tk, "absent"), LinkName)
            /\ host = [darwin |-> TRUE, swift_exec |-> None]
            /\ argv = [entry |-> "api", command |-> "symlink_force",
                       target |-> t, link_name |-> LinkName, disk |-> d]
            /\ args = EmptyNamespace
            /\ attrs = {}
            /\ fs = d
            /\ pc = "symlink_force"
            /\ ret = "build"
            /\ bwc = NoCall
            /\ cmds = <<>>
            /\ out = <<>>
            /\ exit = "running"
            /\ run = 1
            /\ twin = NoTwin

\* symlink_force(target, link_name) is called (run counts the calls)
symlink_force_call ==
    /\ pc = "symlink_force"
    /\ IF symlink_force_raises(fs, argv.target, argv.link_name)
       THEN /\ Raise("OSError")
            /\ fs' = symlink_force(fs, argv.target, argv.link_name)
            /\ UNCHANGED run
       ELSE /\ fs' = symlink_force(fs, argv.target, argv.link_name)
            /\ run' = run + 1
            /\ pc' = IF run < MaxRuns THEN "symlink_force" ELSE "returned"
            /\ UNCHANGED <<out, exit>>
    /\ UNCHANGED <<twin, host, argv, args, attrs, ret, bwc, cmds>>

NextLink == symlink_force_call

SpecLink == InitLink /\ [][NextLink]_vars

\* C12 as stated: with a regular file or a symbolic link (to anything) at
\* link_name the call succeeds and the entry at link_name itself is then a
\* symbolic link to target.
C12_EntryReplaced ==
    (/\ argv.command = "symlink_force"
     /\ argv.link_name \in DOMAIN argv.disk
     /\ argv.disk[argv.link_name].kind \in {"file", "link"}
     /\ pc # "symlink_force" \/ run > 1)
    => (pc # "exited" /\ fs[argv.link_name] = Link(argv.target))

\* what the entry at p leads to when its links are followed to the end, one
\* after the other, each target read from the directory its link is in:
\* "dir", "file", or "nothing" (a missing entry, a link to itself)
LeadsTo(d, p) ==
    LET past(q) == IF q \in DOMAIN d /\ d[q].kind = "link"
                   THEN abspath(join(dirname(q), d[q].target))
                   ELSE q
        end == past(past(past(past(p))))
    IN  IF end \in DOMAIN d /\ d[end].kind # "link" THEN [kind |-> d[end].kind, at |-> end]
        ELSE [kind |-> "nothing", at |-> None]

\* C12 (amended): a regular file, or a symbolic link that does not lead to a
\* directory, at link_name is replaced by a symbolic link to target; when
\* link_name is a directory or a symbolic link that leads to one, directly or
\* through further links, by absolute or relative targets, the link is made
\* inside that directory under target's file name, replacing a file or link
\* there, and link_name itself stays; nothing else changes.  A further call
\* changes nothing, unless link_name was not a directory and target is one.
C12_Relink ==
    [][(argv.command = "symlink_force" /\ pc = "symlink_force") =>
        LET ln == argv.link_name
            t == argv.target
            found == LeadsTo(fs, ln)
            inside == found.at \o <<basename(t)>>
        IN  /\ (ln \in DOMAIN fs /\ fs[ln].kind \in {"file", "link"} /\ found.kind # "dir")
                => (pc' # "exited" /\ fs' = Put(fs, ln, Link(t)))
            /\ (found.kind = "dir"
                 /\ (inside \in DOMAIN fs => fs[inside].kind \in {"file", "link"}))
                => (pc' # "exited" /\ fs' = Put(fs, inside, Link(t)))
            /\ (run > 1 /\ (LeadsTo(argv.disk, ln).kind = "dir"
                             \/ LeadsTo(argv.disk, t).kind # "dir"))
                => (pc' # "exited" /\ fs' = fs)
      ]_vars

\* link_name was a link that leads to a directory through a second link: the
\* link to target has been made inside that directory, link_name is as it
\* was, and the call has been repeated
C12_Witness ==
    /\ argv.command = "symlink_force"
    /\ run = 3 /\ pc = "returned"
    /\ argv.link_name \in DOMAIN argv.disk
    /\ argv.disk[argv.link_name] = Link(<<"..", "hop">>)
    /\ fs[argv.link_name] = argv.disk[argv.link_name]
    /\ fs[SomeDir \o <<basename(argv.target)>>] = Link(argv.target)


----------------------------------------------------------------------------
\* The same invocation made twice, with and without --verbose.

\* the second pass: the command started again on the disk the first pass
\* found, the verbose flag being the only difference
rerun_flipped ==
    /\ pc = "exited"
    /\ twin.pass = 1
    /\ LET v == [argv EXCEPT !.verbose = ~argv.verbose]
       IN  /\ twin' = [pass |-> 2, cmds |-> cmds, exit |-> exit, fs |-> fs]
           /\ argv' = v
           /\ args' = IF v.entry = "cli" THEN EmptyNamespace ELSE api_namespace(v)
           /\ attrs' = IF v.entry = "cli" THEN {} ELSE BuildAttrs \cup StageAttrs
           /\ fs' = argv.disk
           /\ pc' = "load"
           /\ ret' = "build"
           /\ bwc' = NoCall
           /\ cmds' = <<>>
           /\ out' = <<>>
           /\ exit' = "running"
    /\ UNCHANGED <<host, run>>

\* in the second pass an external command ends as the command launched at the
\* same position of the first pass did
Replay ==
    twin.pass = 2 =>
        /\ \A i \in Idx : i <= Len(twin.cmds) => cmds[i].ok = twin.cmds[i].ok
        \* a failing rm leaves what it left the first time
        /\ (pc = "exited" /\ cmds # <<>> /\ cmds[Len(cmds)].step = "clean"
              /\ ~cmds[Len(cmds)].ok) => fs = twin.fs

InitTwin == Init /\ Len(argv.filter) <= 1 /\ ~argv.release

NextTwin ==
    \/ rerun_flipped
    \/ load /\ Replay'
    \/ main /\ Replay'
    \/ clean /\ Replay'
    \/ clean_build_args_swiftc /\ Replay'
    \/ clean_build_args_target /\ Replay'
    \/ build /\ Replay'
    \/ build_llbuild /\ Replay'
    \/ build_with_cmake_configure /\ Replay'
    \/ build_with_cmake_compile /\ Replay'
    \/ build_swiftpm_with_cmake /\ Replay'
    \/ make_symlinks /\ Replay'
    \/ build_swiftpm_with_swiftpm /\ Replay'
    \/ test_note /\ Replay'
    \/ test /\ Replay'
    \/ install /\ Replay'

SpecTwin == InitTwin /\ [][NextTwin]_vars

\* what a run did, without the wording of its commands: the steps in order,
\* the stage and directory of each, and how each ended
Steps(log) ==
    [i \in 1..Len(log) |-> [step |-> log[i].step, stage |-> log[i].stage,
                            cwd |-> log[i].cwd, ok |-> log[i].ok]]

\* C13: verbose mode does not influence control flow: a run and its repetition
\* with the other verbose flag, on the same disk and with the same outcomes of
\* the external commands, launch the same steps of the same stages in the same
\* order, and end with the same exit status and the same disk.
C13_VerboseBlind ==
    /\ twin.pass = 2 => /\ Len(cmds) <= Len(twin.cmds)
                        /\ Steps(cmds) = SubSeq(Steps(twin.cmds), 1, Len(cmds))
    /\ (twin.pass = 2 /\ pc = "exited") =>
            /\ Steps(cmds) = Steps(twin.cmds)
            /\ exit = twin.exit
            /\ ExitCode(exit) = ExitCode(twin.exit)
            /\ fs = twin.fs

\* a complete test run has been repeated with the other verbose flag
C13_Witness ==
    /\ twin.pass = 2 /\ pc = "exited" /\ exit = "ok" /\ argv.verbose
    /\ argv.command = "test" /\ StagesRun = <<1, 2, 3, 4>>
    /\ out # <<>>


----------------------------------------------------------------------------
\* C14: a run that ended through error() for a tool or source tree that was
\* not found has launched no command of any stage and has left the disk, the
\* build root included, as it found it.
C14_NotFoundBeforeStages ==
    (pc = "exited" /\ exit = "error")
    => /\ \A i \in Idx : cmds[i].stage = 0
       /\ fs = argv.disk


----------------------------------------------------------------------------
\* Compiler resolution on its own: clean_build_args up to the compiler path,
\* for every combination of --swiftc and SWIFT_EXEC.

\* --swiftc: also the path of the interpreter
SwiftcOverrides == SwiftcArgs \cup {<<"tc", "bin", "swift">>}

\* SWIFT_EXEC: also the path of the compiler, and a path with ".." in it
HintOverrides ==
    EnvHints \cup {<<"/", "env", "bin", "swiftc">>, <<"/", "env", "bin", "..", "bin", "swift">>}

\* what bin/swift of a toolchain is a symbolic link to
SwiftFrontend == <<"/", "env", "bin", "swift-frontend">>

\* a disk where the SWIFT_EXEC path is such a link
WithToolchainLink(d, hint) == Put(mkdir_p(d, SubSeq(hint, 1, Len(hint) - 1)), hint, Link(SwiftFrontend))

\* how the toolchain the SWIFT_EXEC path is in is laid out: bin/swift a file
\* (or missing), a link to swift-frontend by absolute or by relative path, a
\* link into a cellar where swift is a link again, or a link to itself
ToolchainLayouts == {"plain", "linked", "relative", "cellar", "loop"}

ToolchainDisk(d, swift, layout) ==
    LET bin == SubSeq(swift, 1, Len(swift) - 1)
        top == SubSeq(swift, 1, Len(swift) - 2)
        cellar == top \o <<"Cellar", "swift", "bin">>
    IN  CASE layout = "plain"    -> d
          [] layout = "linked"   -> WithToolchainLink(d, swift)
          [] layout = "relative" ->
                Put(mkdir_p(mkdir_p(d, bin), top \o <<"lib">>), swift,
                    Link(<<"..", "lib", "swift-frontend">>))
          [] layout = "cellar"   ->
                Put(Put(mkdir_p(mkdir_p(d, bin), cellar), swift,
                        Link(<<"..", "Cellar", "swift", "bin", "swift">>)),
                    cellar \o <<"swift">>, Link(<<"swift-frontend">>))
          [] layout = "loop"     -> Put(mkdir_p(d, bin), swift, Link(swift))

InitResolve ==
    \E darwin \in BOOLEAN, hint \in HintOverrides, swiftc \in SwiftcOverrides,
       command \in {"build", "test"}, verbose \in BOOLEAN, release \in BOOLEAN,
       src \in BOOLEAN, layout \in ToolchainLayouts :
        LET h == [darwin |-> darwin, swift_exec |-> hint]
            bd == InsideBootstrap(h, DefaultBuildDir)
            d0 == InitialDisk(h, DefaultBuildDir, bd, src, FALSE, FALSE, FALSE)
        IN  \E d \in {IF basename(hint) = "swift"
                      THEN ToolchainDisk(d0, abspath(hint), layout) ELSE d0} :
            LET v == [entry |-> "api", command |-> command, build_dir |-> DefaultBuildDir,
                      verbose |-> verbose, swiftc_path |-> swiftc, release |-> release,
                      filter |-> <<>>, parallel |-> TRUE,
                      llbuild_build_dir |-> None, llbuild_link_framework |-> FALSE,
                      bootstrap_dir |-> bd, disk |-> d]
            IN  /\ host = h
                /\ run = 1
                /\ twin = NoTwin
                /\ Start(v, d)

NextResolve == load \/ clean_build_args_swiftc

SpecResolve == InitResolve /\ [][NextResolve]_vars

\* the compiler next to an interpreter: .../swift -> .../swiftc
SwiftcSibling(p) ==
    IF basename(p) = "swift" THEN SubSeq(p, 1, Len(p) - 1) \o <<"swiftc">> ELSE p

\* the explicit override of an invocation: --swiftc, else SWIFT_EXEC
SwiftcOverride ==
    IF Truthy(argv.swiftc_path) THEN abspath(argv.swiftc_path)
    ELSE IF Truthy(host.swift_exec) THEN abspath(host.swift_exec)
    ELSE None

\* clean_build_args has settled the compiler, or has given up looking for it
SwiftcSettled ==
    \/ pc = "get_build_target"
    \/ pc = "exited" /\ cmds # <<>> /\ cmds[Len(cmds)].step = "discover"

\* C15: once the compiler is resolved, an explicit override (--swiftc, else
\* SWIFT_EXEC) has been taken without any discovery command, with a file name
\* 'swift' replaced by its sibling 'swiftc'; without an override the
\* discovery command has run once, and the run has ended through error() when
\* it found nothing.
C15_CompilerResolution ==
    SwiftcSettled =>
        IF Truthy(SwiftcOverride)
        THEN /\ \A i \in Idx : cmds[i].step # "discover"
             /\ pc = "get_build_target"
             /\ args.swiftc_path = SwiftcSibling(SwiftcOverride)
        ELSE /\ Cardinality({i \in Idx : cmds[i].step = "discover"}) = 1
             /\ cmds[Len(cmds)].step = "discover"
             /\ IF cmds[Len(cmds)].ok THEN args.swiftc_path = DiscoveredSwiftc
                ELSE pc = "exited" /\ exit = "error"


----------------------------------------------------------------------------
\* the triple of the host: fixed on Darwin, what clang prints elsewhere
HostTriple == IF host.darwin THEN DarwinTriple ELSE ClangTriple

\* build_root / target_triple / (release ? "release" : "debug")
ExpectedBinDir ==
    (BuildRoot \o HostTriple) \o (IF argv.release THEN <<"release">> ELSE <<"debug">>)

\* C16: whenever clean_build_args has produced a configuration, bin_dir is
\* build_root / target_triple / "release" with the release flag and
\* build_root / target_triple / "debug" without; and when clean_build_args
\* runs again (the test verb, after the build) the configuration it yields is
\* identical to the one it started from.
C16_BinDirAndReassembly ==
    [][/\ "bin_dir" \in attrs' => args'.bin_dir = ExpectedBinDir'
       /\ (ret = "test" /\ pc \in {"get_swiftc_path", "get_build_target"} /\ pc' # "exited")
            => (args' = args /\ attrs' = attrs)
      ]_vars

\* a release configuration on Linux has been assembled a second time
C16_Witness ==
    /\ pc = "test" /\ ret = "test" /\ argv.release /\ ~host.darwin
    /\ args.bin_dir = <<"/", "cwd", ".build">> \o ClangTriple \o <<"release">>


----------------------------------------------------------------------------
\* build(args) and test(args) for every placing of the two CMake build
\* directories and every entry an earlier run may have left where the runtime
\* link goes.

\* args.bootstrap_dir: inside the build root, outside, the directory llbuild
\* is built in, or the supplied llbuild location
BootstrapDirs(h) ==
    {InsideBootstrap(h, DefaultBuildDir), OutsideBootstrap,
     LlbuildDirOf(h, DefaultBuildDir), SuppliedLlbuild}

\* what is at <target_dir>/lib/swift before the run
RuntimeKinds == {"absent", "link", "file", "link_dir", "dir", "rt_file"}

DiskWithRuntime(d, rt, kind) ==
    LET pm == join(rt, <<"pm">>)
    IN  CASE kind = "absent"   -> d
          [] kind = "link"     -> Put(mkdir_p(d, rt), pm, Link(OldTarget))
          [] kind = "file"     -> Put(mkdir_p(d, rt), pm, File)
          [] kind = "link_dir" -> Put(mkdir_p(mkdir_p(d, rt), SomeDir), pm, Link(SomeDir))
          [] kind = "dir"      -> mkdir_p(d, pm)
          [] kind = "rt_file"  -> Put(mkdir_p(d, SubSeq(rt, 1, Len(rt) - 1)), rt, File)

InitDirs ==
    \E darwin \in BOOLEAN, command \in {"build", "test", "install"},
       llb \in {None, SuppliedLlbuild}, fw \in BOOLEAN,
       llbCache \in BOOLEAN, bootCache \in BOOLEAN, rtk \in RuntimeKinds :
        LET h == [darwin |-> darwin, swift_exec |-> None]
        IN  \E bd \in BootstrapDirs(h) :
            \E d \in {DiskWithRuntime(
                          InitialDisk(h, DefaultBuildDir, bd, TRUE, llbCache, bootCache, FALSE),
                          RuntimesDirOf(h, DefaultBuildDir), rtk)} :
            LET v == [entry |-> "api", command |-> command, build_dir |-> DefaultBuildDir,
                      verbose |-> FALSE, swiftc_path |-> <<"tc", "bin", "swiftc">>,
                      release |-> FALSE, filter |-> <<>>, parallel |-> TRUE,
                      llbuild_build_dir |-> llb, llbuild_link_framework |-> fw,
                      bootstrap_dir |-> bd, disk |-> d]
            IN  /\ host = h
                /\ run = 1
                /\ twin = NoTwin
                /\ Start(v, d)

NextDirs ==
    \/ load
    \/ clean_build_args_swiftc
    \/ clean_build_args_target
    \/ build
    \/ build_llbuild
    \/ build_with_cmake_configure
    \/ build_with_cmake_compile
    \/ build_swiftpm_with_cmake
    \/ make_symlinks
    \/ build_swiftpm_with_swiftpm
    \/ test_note
    \/ test
    \/ install

SpecDirs == InitDirs /\ [][NextDirs]_vars

\* C17: within one invocation no two configure steps run in the same build
\* directory, wherever the dependency build directory and the bootstrap
\* directory are (also when they are the same path).
C17_ConfigureOncePerDir ==
    \A i \in Idx, j \in Idx :
        (i < j /\ cmds[i].step = "configure" /\ cmds[j].step = "configure")
        => cmds[i].cwd # cmds[j].cwd

\* stage 1 configured the directory that is also the bootstrap directory, and
\* stage 2 has compiled there without configuring again
C17_Witness ==
    /\ argv.bootstrap_dir = LlbuildDirOf(host, argv.build_dir)
    /\ \E i \in Idx, j \in Idx :
          /\ cmds[i].step = "configure" /\ cmds[i].stage = 1
          /\ cmds[j].step = "compile" /\ cmds[j].stage = 2
          /\ cmds[i].cwd = cmds[j].cwd
    /\ Cardinality({i \in Idx : cmds[i].step = "configure"}) = 1


----------------------------------------------------------------------------
\* <target_dir>/lib/swift
RuntimesDir == (BuildRoot \o HostTriple) \o <<"lib", "swift">>

\* where the runtime link is made: inside lib/swift, or in its place when the
\* run found something there that is not a directory
RuntimeLinkPath ==
    IF Exists(argv.disk, RuntimesDir) /\ ~isdir(argv.disk, RuntimesDir)
    THEN RuntimesDir
    ELSE RuntimesDir \o <<"pm">>

RuntimeLinked(d) ==
    RuntimeLinkPath \in DOMAIN d /\ d[RuntimeLinkPath] = Link(argv.bootstrap_dir \o <<"pm">>)

\* C19: the self build of stage 3 is reached only from make_symlinks, which
\* runs in the same invocation right after stage 2's compile step succeeded
\* and leaves the runtime link pointing at bootstrap_dir/pm; when the first
\* generation binary is launched the link is there, whatever link or file the
\* run found at that path.
C19_LinkBeforeSelfBuild ==
    [][/\ pc' = "build_swiftpm_with_swiftpm" =>
            /\ pc = "make_symlinks"
            /\ cmds # <<>> /\ cmds' = cmds
            /\ LET last == cmds[Len(cmds)]
               IN  last.step = "compile" /\ last.stage = 2 /\ last.ok
            /\ RuntimeLinked(fs')
       /\ (Len(cmds') > Len(cmds) /\ cmds'[Len(cmds')].step = "selfbuild") =>
            /\ pc = "build_swiftpm_with_swiftpm"
            /\ RuntimeLinked(fs) /\ RuntimeLinked(fs')
      ]_vars

\* stage 3 has been launched on a disk that held an older link
C19_Witness ==
    /\ RuntimeLinkPath \in DOMAIN argv.disk
    /\ argv.disk[RuntimeLinkPath] = Link(OldTarget)
    /\ \E i \in Idx : cmds[i].step = "selfbuild"
    /\ RuntimeLinked(fs)


----------------------------------------------------------------------------
\* build_root / target_triple / llbuild
Stage1Dir == (BuildRoot \o HostTriple) \o <<"llbuild">>

\* bootstrap_dir/lib : dir/lib
SearchPath(dir) == (argv.bootstrap_dir \o <<"lib">>) \o <<":">> \o (dir \o <<"lib">>)

\* C18: when stage 1 runs, it configures and compiles in build_root /
\* target_triple / llbuild; that directory is the location stage 2's
\* configure command passes as its llbuild argument and the one whose lib
\* directory is in DYLD_LIBRARY_PATH and LD_LIBRARY_PATH of the stage 3 and
\* stage 4 commands, and it stays the Namespace's llbuild location to the end.
C18_DependencyLocationThreaded ==
    (\E k \in Idx : cmds[k].stage = 1) =>
        /\ args.llbuild_build_dir = Stage1Dir
        /\ \A i \in Idx :
              /\ (cmds[i].stage = 1 /\ cmds[i].step \in {"configure", "compile"})
                    => cmds[i].cwd = Stage1Dir
              /\ (cmds[i].stage = 2 /\ cmds[i].step = "configure")
                    => Contains(cmds[i].argv, LlbuildArg(argv.llbuild_link_framework, Stage1Dir))
              /\ cmds[i].stage \in {3, 4}
                    => /\ Contains(cmds[i].argv, S("DYLD_LIBRARY_PATH=") \o SearchPath(Stage1Dir))
                       /\ Contains(cmds[i].argv, S("LD_LIBRARY_PATH=") \o SearchPath(Stage1Dir))

\* all four stages ran, stage 2 configured, the test runner was launched
C18_Witness ==
    /\ StagesRun = <<1, 2, 3, 4>>
    /\ \E i \in Idx : cmds[i].stage = 2 /\ cmds[i].step = "configure"
    /\ \E i \in Idx : cmds[i].stage = 1 /\ cmds[i].step = "configure"
    /\ pc = "exited" /\ exit = "ok"

\* the words an overlay assignment starts with
OverlayNames ==
    {"env", "SWIFT_EXEC=", "SWIFTPM_BUILD_DIR=", "SWIFTPM_PD_LIBS=", "DYLD_FRAMEWORK_PATH=",
     "SWIFTPM_BOOTSTRAP=1", "SWIFTCI_USE_LOCAL_DEPS=1", "DYLD_LIBRARY_PATH=", "LD_LIBRARY_PATH="}

\* the overlay of the invocation: compiler, build root, library hint,
\* linkage mode, and the two loader variables with one value
ExpectedOverlay(a) ==
    <<<<"env">>,
      <<"SWIFT_EXEC=">> \o a.swiftc_path,
      <<"SWIFTPM_BUILD_DIR=">> \o BuildRoot,
      <<"SWIFTPM_PD_LIBS=">> \o (argv.bootstrap_dir \o <<"pm">>)>>
    \o (IF argv.llbuild_link_framework
        THEN <<(<<"DYLD_FRAMEWORK_PATH=">> \o a.llbuild_build_dir), <<"SWIFTPM_BOOTSTRAP=1">>>>
        ELSE << <<"SWIFTCI_USE_LOCAL_DEPS=1">> >>)
    \o <<(<<"DYLD_LIBRARY_PATH=">> \o SearchPath(a.llbuild_build_dir)),
         (<<"LD_LIBRARY_PATH=">> \o SearchPath(a.llbuild_build_dir))>>

\* C20: every command of stage 3 and stage 4 starts with the overlay (env,
\* compiler path, build root, library hint, linkage mode, the two loader
\* variables with the same value), built from the configuration at the time
\* of its launch; no other command carries an overlay assignment; and no
\* step changes the orchestrator's own environment.
C20_OverlayScoped ==
    [][/\ host' = host
       /\ \A i \in 1..Len(cmds') :
            LET c == cmds'[i]
            IN  IF c.stage \in {3, 4}
                THEN /\ i > Len(cmds) =>
                          SubSeq(c.argv, 1, Len(ExpectedOverlay(args))) = ExpectedOverlay(args)
                     /\ \E k \in 1..Len(c.argv), l \in 1..Len(c.argv) :
                          /\ c.argv[k][1] = "DYLD_LIBRARY_PATH="
                          /\ c.argv[l][1] = "LD_LIBRARY_PATH="
                          /\ Tail(c.argv[k]) = Tail(c.argv[l])
                ELSE \A k \in 1..Len(c.argv) : c.argv[k][1] \notin OverlayNames
      ]_vars

\* a test run on a host with SWIFT_EXEC set has launched stages 3 and 4
C20_Witness ==
    /\ Truthy(host.swift_exec)
    /\ \E i \in Idx : cmds[i].stage = 3
    /\ \E i \in Idx : cmds[i].stage = 4 /\ cmds[i].ok
    /\ \E i \in Idx : cmds[i].stage = 2 /\ cmds[i].step = "configure"
    /\ pc = "exited"

====
